---- MODULE Spec2Model ----
(***************************************************************************)
(* Model of privatbank_exchange.py: the per-date rate fetcher, the         *)
(* fan-out/fan-in aggregation service and the websocket command handler.   *)
(*                                                                         *)
(* Text is a sequence of one-character strings.  A Python dict is the      *)
(* sequence of its entries [k, v] in insertion order.  An optional JSON    *)
(* field is a set with at most one element ({} is Python's None).  A       *)
(* Python call result is [exc, val]: exc = "" when the call returned val,  *)
(* otherwise the class name of the exception that left the call.           *)
(***************************************************************************)
EXTENDS Integers, Sequences, FiniteSets, TLC

VARIABLES now, ticks, call, conn, log, main

\* ------------------------------------------------------------------ bounds

\* the longest date window whose fetches are explored
MaxWindow == 3
\* how many times the clock may pass midnight
MaxTicks == 1
\* how many messages the connections deliver in all
MaxMsgs == 3
\* the longest date window asked for on the command line
MaxCliWindow == 2

\* ------------------------------------------------------- program constants

MinDays == 1
MaxDays == 10

\* ------------------------------------------------------------------- text

DigitChars == <<"0", "1", "2", "3", "4", "5", "6", "7", "8", "9">>

Fmt2(n) == <<DigitChars[((n \div 10) % 10) + 1], DigitChars[(n % 10) + 1]>>

Fmt4(n) == Fmt2(n \div 100) \o Fmt2(n % 100)

\* ------------------------------------------------------------------ dates

\* datetime keeps a proleptic Gregorian ordinal (0001-01-01 is day 1); the
\* civil date of an ordinal, as <<day, month, year>>
CivilFromOrdinal(ord) ==
    LET z   == ord + 305
        era == z \div 146097
        doe == z % 146097
        yoe == (doe - (doe \div 1460) + (doe \div 36524) - (doe \div 146096)) \div 365
        doy == doe - (365 * yoe + (yoe \div 4) - (yoe \div 100))
        mp  == (5 * doy + 2) \div 153
        d   == doy - ((153 * mp + 2) \div 5) + 1
        m   == IF mp < 10 THEN mp + 3 ELSE mp - 9
        y   == yoe + era * 400 + (IF m <= 2 THEN 1 ELSE 0)
    IN  <<d, m, y>>

\* strftime("%d.%m.%Y")
Strftime(ord) ==
    LET c == CivilFromOrdinal(ord)
    IN  Fmt2(c[1]) \o <<".">> \o Fmt2(c[2]) \o <<".">> \o Fmt4(c[3])

\* the days on which a run may start: 01.01.2024 and 01.03.2024
TodayInputs == {738886, 738946}

\* -------------------------------------------------------------- exceptions

NoExc == ""

IsClientError(e) ==
    e \in {"ClientConnectorError", "ClientResponseError", "ContentTypeError"}

IsValueError(e) == e \in {"ValueError", "JSONDecodeError"}

Returned(v) == [exc |-> NoExc, val |-> v]

Raised(e) == [exc |-> e, val |-> <<>>]

\* ------------------------------------------------------------------ dicts

DictKeys(d) == {d[j].k : j \in 1..Len(d)}

\* d[key] = value
DictSet(d, key, value) ==
    IF key \in DictKeys(d)
    THEN [j \in 1..Len(d) |-> IF d[j].k = key THEN [k |-> key, v |-> value] ELSE d[j]]
    ELSE Append(d, [k |-> key, v |-> value])

\* x in list
InList(x, list) == \E j \in 1..Len(list) : list[j] = x

\* ------------------------------------------------- the remote rate source

\* one element of the exchangeRate array; isObj = FALSE is an element that
\* is not a JSON object
RateElement(cur, sale, purchase) ==
    [isObj |-> TRUE, currency |-> cur, saleRate |-> sale, purchaseRate |-> purchase]

NotAnObject ==
    [isObj |-> FALSE, currency |-> {}, saleRate |-> {}, purchaseRate |-> {}]

\* the exchangeRate arrays the source may answer with (rates in 1/100)
RateLists ==
    { <<RateElement({"USD"}, {4120}, {4060}), RateElement({"EUR"}, {4480}, {4390})>>,
      <<RateElement({}, {100}, {100}), RateElement({"GBP"}, {5210}, {5100}),
        RateElement({"EUR"}, {}, {4400}), RateElement({"GBP"}, {5300}, {})>>,
      <<RateElement({"USD"}, {4100}, {4000}), NotAnObject>> }

\* a decoded JSON body: an object with or without the exchangeRate field,
\* or a value that is not an object
JsonObject(list) == [shape |-> "object", hasRates |-> TRUE, exchangeRate |-> list]

JsonBodies ==
    {JsonObject(l) : l \in RateLists}
        \cup {[shape |-> "object", hasRates |-> FALSE, exchangeRate |-> <<>>],
              [shape |-> "array", hasRates |-> FALSE, exchangeRate |-> <<>>]}

\* what one GET may meet: a transport failure, an HTTP status, a body that
\* is not JSON, a body of another content type, or a decoded JSON value
NetReply(transport, status, json, data) ==
    [transport |-> transport, status |-> status, json |-> json, data |-> data]

NoBody == [shape |-> "array", hasRates |-> FALSE, exchangeRate |-> <<>>]

\* which of these a GET met
NetKind(net) ==
    IF net.transport # NoExc THEN "transport"
    ELSE IF net.status >= 400 THEN "status"
    ELSE net.json

NetOutcomes ==
    {NetReply("ClientConnectorError", 0, "ok", NoBody),
     NetReply(NoExc, 500, "ok", NoBody),
     NetReply(NoExc, 200, "malformed", NoBody),
     NetReply(NoExc, 200, "wrongtype", NoBody)}
        \cup {NetReply(NoExc, 200, "ok", b) : b \in JsonBodies}

\* ---------------------------------------- PrivatBankCurrencyRatesFetcher

\* the loop of _parse_response over the exchangeRate elements
RECURSIVE ParseRates(_, _, _)
ParseRates(items, currencies, rates) ==
    IF items = <<>> THEN Returned(rates)
    ELSE LET rate == Head(items)
         IN  IF ~rate.isObj THEN Raised("AttributeError")
             ELSE IF \E c \in rate.currency : InList(c, currencies)
             THEN ParseRates(Tail(items), currencies,
                      DictSet(rates, CHOOSE c \in rate.currency : TRUE,
                              [sale |-> rate.saleRate, purchase |-> rate.purchaseRate]))
             ELSE ParseRates(Tail(items), currencies, rates)

\* a parse that keeps a date with no matched currency
ParseResponseKeepEmpty(data, date, currencies) ==
    IF data.shape # "object" THEN Raised("AttributeError")
    ELSE LET r == ParseRates(IF data.hasRates THEN data.exchangeRate ELSE <<>>,
                             currencies, <<>>)
         IN  IF r.exc # NoExc THEN r ELSE Returned(<<[k |-> date, v |-> r.val]>>)

ParseResponse(data, date, currencies) ==
    IF data.shape # "object" THEN Raised("AttributeError")
    ELSE LET r == ParseRates(IF data.hasRates THEN data.exchangeRate ELSE <<>>,
                             currencies, <<>>)
         IN  IF r.exc # NoExc THEN r
             ELSE IF Len(r.val) > 0
             THEN Returned(<<[k |-> date, v |-> r.val]>>)
             ELSE Returned(<<>>)

\* session.get, raise_for_status and response.json: what reaches the
\* except clause of fetch_rates
Request(net, date, currencies) ==
    IF net.transport # NoExc THEN Raised(net.transport)
    ELSE IF net.status >= 400 THEN Raised("ClientResponseError")
    ELSE IF net.json = "wrongtype" THEN Raised("ContentTypeError")
    ELSE IF net.json = "malformed" THEN Raised("JSONDecodeError")
    ELSE ParseResponse(net.data, date, currencies)

\* a fetch without the except clause
FetchRatesUncaught(net, date, currencies) == Request(net, date, currencies)

FetchRates(net, date, currencies) ==
    LET r == Request(net, date, currencies)
    IN  IF IsClientError(r.exc) THEN Returned(<<>>) ELSE r

\* --------------------------------------------------- CurrencyRatesService

\* a range check that also rejects the last valid day count
DaysInvalidOffByOne(days) == days < MinDays \/ days >= MaxDays

DaysInvalid(days) == days < MinDays \/ days > MaxDays

\* a window that runs forward from today
DateWindowAscending(days, clk, cross) ==
    [i \in 1..days |-> Strftime((IF i - 1 >= cross THEN clk + 1 ELSE clk) + (i - 1))]

\* the dates list: datetime.now() is read once per element, so the clock
\* may pass midnight before the element of index `cross` (0-based) is built;
\* cross = days is a window built within one day
DateWindow(days, clk, cross) ==
    [i \in 1..days |-> Strftime((IF i - 1 >= cross THEN clk + 1 ELSE clk) - (i - 1))]

\* a fan-in that collects the results as the fetches finish
GatherValuesAsCompleted(res, order) == [i \in 1..Len(res) |-> res[order[i]].val]

\* asyncio.gather hands back the results in the order of the awaitables
GatherValues(res, order) == [i \in 1..Len(res) |-> res[i].val]

Truthy(result) == Len(result) > 0

FilterResults(results) == SelectSeq(results, Truthy)

IdleCall ==
    [pc |-> "idle", days |-> 0, currencies |-> <<>>, dates |-> <<>>,
     res |-> <<>>, met |-> <<>>, order |-> <<>>, out |-> Returned(<<>>)]

\* a service that checks the day count only after launching the fetches
GetRatesForDaysLateCheck(days, currencies, clk, cross) ==
    LET launched == [IdleCall EXCEPT !.pc = "gather", !.days = days,
                                     !.currencies = currencies,
                                     !.dates = DateWindow(days, clk, cross),
                                     !.res = [i \in 1..days |-> Returned(<<>>)],
                                     !.met = [i \in 1..days |-> "pending"]]
    IN  IF DaysInvalid(days)
        THEN [launched EXCEPT !.pc = "raised", !.out = Raised("ValueError")]
        ELSE launched

\* get_rates_for_days up to its await: the validation, the window and the
\* launch of one fetch per date
GetRatesForDays(days, currencies, clk, cross) ==
    IF DaysInvalid(days)
    THEN [IdleCall EXCEPT !.pc = "raised", !.days = days, !.currencies = currencies,
                          !.out = Raised("ValueError")]
    ELSE [IdleCall EXCEPT !.pc = "gather", !.days = days, !.currencies = currencies,
                          !.dates = DateWindow(days, clk, cross),
                          !.res = [i \in 1..days |-> Returned(<<>>)],
                          !.met = [i \in 1..days |-> "pending"]]

Done(req) == {req.order[j] : j \in 1..Len(req.order)}

Pending(req) == (1..Len(req.dates)) \ Done(req)

\* the fetch of date i completes; gather resumes the awaiting caller with
\* the first exception of a fetch, or with all results once none is pending
FetchStep(req, i, net) ==
    LET r      == FetchRates(net, req.dates[i], req.currencies)
        res2   == [req.res EXCEPT ![i] = r]
        order2 == Append(req.order, i)
        req2   == [req EXCEPT !.res = res2, !.order = order2,
                              !.met = [req.met EXCEPT ![i] = NetKind(net)]]
    IN  IF req.pc # "gather" THEN req2
        ELSE IF r.exc # NoExc
        THEN [req2 EXCEPT !.pc = "raised", !.out = Raised(r.exc)]
        ELSE IF Len(order2) = Len(req.dates)
        THEN [req2 EXCEPT !.pc = "returned",
                          !.out = Returned(FilterResults(GatherValues(res2, order2)))]
        ELSE req2

\* ------------------------------------------------- the command protocol

IsSpace(ch) == ch = " "

\* str.strip()
RECURSIVE StripLeft(_)
StripLeft(text) ==
    IF text # <<>> /\ IsSpace(Head(text)) THEN StripLeft(Tail(text)) ELSE text

RECURSIVE StripRight(_)
StripRight(text) ==
    IF text # <<>> /\ IsSpace(text[Len(text)])
    THEN StripRight(SubSeq(text, 1, Len(text) - 1))
    ELSE text

Strip(text) == StripRight(StripLeft(text))

\* str.split(): the maximal runs of characters that are not whitespace
RECURSIVE SplitFrom(_, _, _)
SplitFrom(text, word, words) ==
    IF text = <<>>
    THEN IF word = <<>> THEN words ELSE Append(words, word)
    ELSE IF IsSpace(Head(text))
    THEN SplitFrom(Tail(text), <<>>, IF word = <<>> THEN words ELSE Append(words, word))
    ELSE SplitFrom(Tail(text), Append(word, Head(text)), words)

Split(text) == SplitFrom(text, <<>>, <<>>)

IsDigit(ch) == \E n \in 1..10 : DigitChars[n] = ch

DigitOf(ch) == (CHOOSE n \in 1..10 : DigitChars[n] = ch) - 1

\* the value of a run of digits and single underscores
RECURSIVE DigitsValue(_, _)
DigitsValue(text, acc) ==
    IF text = <<>> THEN acc
    ELSE IF Head(text) = "_" THEN DigitsValue(Tail(text), acc)
    ELSE DigitsValue(Tail(text), acc * 10 + DigitOf(Head(text)))

\* int(token) of a token without whitespace: an optional sign, then digits
\* that single underscores may separate; anything else is a ValueError
PyInt(token) ==
    LET signed == token # <<>> /\ Head(token) \in {"+", "-"}
        body   == IF signed THEN Tail(token) ELSE token
        wellFormed ==
            /\ body # <<>>
            /\ \A j \in 1..Len(body) : IsDigit(body[j]) \/ body[j] = "_"
            /\ IsDigit(body[1]) /\ IsDigit(body[Len(body)])
            /\ \A j \in 1..(Len(body) - 1) : ~(body[j] = "_" /\ body[j + 1] = "_")
    IN  IF ~wellFormed THEN Raised("ValueError")
        ELSE Returned(IF signed /\ Head(token) = "-"
                      THEN 0 - DigitsValue(body, 0)
                      ELSE DigitsValue(body, 0))

Exchange == <<"e", "x", "c", "h", "a", "n", "g", "e">>

Banana == <<"b", "a", "n", "a", "n", "a">>

\* the text messages a client sends
Messages ==
    { <<>>,
      <<" ", " ">>,
      <<" ">> \o Exchange \o <<" ">>,
      Banana \o <<" ", "3">>,
      Exchange \o <<" ", "1">>,
      Exchange \o <<" ", " ", "1", " ">>,
      Exchange \o <<" ", "0">>,
      Exchange \o <<" ", "1", "1">>,
      Exchange \o <<" ", "1", ".", "5">>,
      Exchange \o <<" ", "1", " ", "2">> }

HelpText == "Please provide the number of days (1-10) for the exchange rates."

RangeErrorText == "Error: The number of days must be between 1 and 10."

FormatErrorText == "Error: Please provide a valid number of days."

InvalidCommandText == "Invalid command. Use 'exchange <days>' to get rates."

TextReply(text) == [kind |-> "text", text |-> text, report |-> <<>>]

NoReply == [kind |-> "none", text |-> "", report |-> <<>>]

\* json.dumps(rates, indent=2, ensure_ascii=False): the serialized report
JsonReply(rates) == [kind |-> "json", text |-> "", report |-> rates]

\* the line the handler appends to exchange_commands.log
AuditLine(time, days) == [time |-> time, days |-> days]

Conns == {"a", "b"}

\* a connection whose handler waits for its first message
NewConn ==
    [pc |-> "awaiting", open |-> TRUE, msg |-> <<>>, days |-> 0, req |-> IdleCall,
     rcvd |-> 0, sent |-> 0, reports |-> 0, lines |-> 0, last |-> NoReply,
     lost |-> "none"]

\* the foreground coroutine main() before its first step
NewMain ==
    [pc |-> "start", argv |-> [days |-> <<>>, currencies |-> <<>>],
     status |-> 0, printed |-> NoReply]

\* ------------------------------------------------------------ the service

DaysInputs == ((MinDays - 2)..MaxWindow) \cup {MaxDays + 1}

CurrencyInputs == {<<>>, <<"EUR", "USD">>, <<"GBP">>}

vars == <<now, ticks, call, conn, log, main>>

Init ==
    /\ now \in TodayInputs
    /\ ticks = 0
    /\ call = IdleCall
    /\ conn = [c \in Conns |-> NewConn]
    /\ log = <<>>
    /\ main = NewMain

\* where midnight may fall while the window of a call is built
Crossings(days) ==
    IF DaysInvalid(days) \/ ticks >= MaxTicks THEN {days} ELSE 1..days

\* the clock after a window was built
Clock(days, cross) ==
    /\ now' = IF cross < days THEN now + 1 ELSE now
    /\ ticks' = IF cross < days THEN ticks + 1 ELSE ticks

\* a caller awaits get_rates_for_days(days, currencies)
Call ==
    /\ call.pc = "idle"
    /\ \E days \in DaysInputs, currencies \in CurrencyInputs :
         \E cross \in Crossings(days) :
            /\ call' = GetRatesForDays(days, currencies, now, cross)
            /\ Clock(days, cross)
    /\ UNCHANGED <<conn, log, main>>

\* one of the launched fetches completes
FetchDone ==
    /\ call.pc \in {"gather", "raised"}
    /\ \E i \in Pending(call), net \in NetOutcomes :
         call' = FetchStep(call, i, net)
    /\ UNCHANGED <<now, ticks, conn, log, main>>

Next == Call \/ FetchDone

Spec == Init /\ [][Next]_vars

\* ------------------------------------------- the service, call by call

\* the day counts around both ends of the accepted range
BoundaryDays == (MinDays - 2)..(MaxDays + 2)

\* every launched fetch meets the same outcome and completes in window order
RECURSIVE RunFetches(_, _)
RunFetches(req, net) ==
    IF Pending(req) = {} THEN req
    ELSE RunFetches(
             FetchStep(req, CHOOSE i \in Pending(req) : \A j \in Pending(req) : i <= j, net),
             net)

\* one whole call of get_rates_for_days, from the validation to its outcome
CallToCompletion ==
    /\ call.pc = "idle"
    /\ \E days \in BoundaryDays, currencies \in CurrencyInputs, net \in NetOutcomes :
         call' = RunFetches(GetRatesForDays(days, currencies, now, days), net)
    /\ UNCHANGED <<now, ticks, conn, log, main>>

NextDays == CallToCompletion

SpecDays == Init /\ [][NextDays]_vars

\* ------------------------------------------------------ exchange_command

\* a check without the upper end of the range
DaysInRangeNoUpper(days) == 1 <= days

\* 1 <= days <= 10
DaysInRange(days) == 1 <= days /\ days <= 10

\* a send whose failure on a closed connection does not end the handler
SendIgnoringClosed(cn, reply, pc) ==
    IF cn.open
    THEN [cn EXCEPT !.last = reply, !.sent = @ + 1, !.pc = pc,
                    !.reports = IF reply.kind = "json" THEN @ + 1 ELSE @]
    ELSE [cn EXCEPT !.pc = pc, !.lost = reply.kind]

\* await websocket.send(reply): a closed connection raises ConnectionClosed,
\* which ends the handler with the reply lost
Send(cn, reply, pc) ==
    IF cn.open
    THEN [cn EXCEPT !.last = reply, !.sent = @ + 1, !.pc = pc,
                    !.reports = IF reply.kind = "json" THEN @ + 1 ELSE @]
    ELSE [cn EXCEPT !.pc = "done", !.lost = reply.kind]

\* a handler that goes on to the audit line after a failed request too
AfterServiceLogsFailure(cn) ==
    IF cn.req.pc = "returned"
    THEN Send([cn EXCEPT !.req = IdleCall], JsonReply(cn.req.out.val), "logging")
    ELSE IF cn.req.pc = "raised"
    THEN IF IsValueError(cn.req.out.exc)
         THEN Send([cn EXCEPT !.req = IdleCall], TextReply(FormatErrorText), "logging")
         ELSE [cn EXCEPT !.req = IdleCall, !.pc = "crashed"]
    ELSE [cn EXCEPT !.pc = "fetching"]

\* the handler once get_rates_for_days gave control back: the report is
\* sent and the audit line is next; a ValueError reaches the except clause;
\* any other exception ends the handler
AfterService(cn) ==
    IF cn.req.pc = "returned"
    THEN Send([cn EXCEPT !.req = IdleCall], JsonReply(cn.req.out.val), "logging")
    ELSE IF cn.req.pc = "raised"
    THEN IF IsValueError(cn.req.out.exc)
         THEN Send([cn EXCEPT !.req = IdleCall], TextReply(FormatErrorText), "awaiting")
         ELSE [cn EXCEPT !.req = IdleCall, !.pc = "crashed"]
    ELSE [cn EXCEPT !.pc = "fetching"]

\* one message of the loop, up to the handler's next await
OnMessage(cn, message, clk, cross) ==
    LET command == Split(Strip(message))
        got     == [cn EXCEPT !.msg = message, !.rcvd = @ + 1]
    IN  IF command = <<>> THEN [got EXCEPT !.pc = "crashed"]
        ELSE IF command[1] = Exchange
        THEN IF Len(command) = 1 THEN Send(got, TextReply(HelpText), "awaiting")
             ELSE IF Len(command) = 2
             THEN LET days == PyInt(command[2])
                  IN  IF days.exc # NoExc
                      THEN Send(got, TextReply(FormatErrorText), "awaiting")
                      ELSE IF DaysInRange(days.val)
                      THEN AfterService(
                               [got EXCEPT !.days = days.val,
                                           !.req = GetRatesForDays(days.val, <<"EUR", "USD">>,
                                                                   clk, cross)])
                      ELSE Send(got, TextReply(RangeErrorText), "awaiting")
             ELSE got
        ELSE Send(got, TextReply(InvalidCommandText), "awaiting")

\* the day count a message asks the service for, 0 when it asks for none
AskedDays(message) ==
    LET command == Split(Strip(message))
    IN  IF Len(command) = 2 /\ command[1] = Exchange /\ PyInt(command[2]).exc = NoExc
           /\ DaysInRange(PyInt(command[2]).val)
        THEN PyInt(command[2]).val
        ELSE 0

\* the messages delivered so far
RECURSIVE SumRcvd(_)
SumRcvd(cs) ==
    IF cs = {} THEN 0
    ELSE LET c == CHOOSE x \in cs : TRUE IN conn[c].rcvd + SumRcvd(cs \ {c})

Delivered == SumRcvd(Conns)

\* a loop that keeps running once main() is over
LoopRunsForever == TRUE

\* loop.run_until_complete(main()) drives the handlers until main() is over
LoopRunning == main.pc # "exited"

\* a handler that takes a message only while no other handler is busy
CanReceiveWhenQuiet(c) ==
    /\ conn[c].pc = "awaiting"
    /\ conn[c].open
    /\ \A d \in Conns : conn[d].pc \in {"awaiting", "done", "crashed"}

\* async for message in websocket: the handler waits on an open connection
CanReceive(c) ==
    /\ conn[c].pc = "awaiting"
    /\ conn[c].open

\* a connection delivers a message to its handler
Receive(c) ==
    /\ LoopRunning
    /\ CanReceive(c)
    /\ Delivered < MaxMsgs
    /\ \E message \in Messages :
         \E cross \in Crossings(AskedDays(message)) :
            /\ conn' = [conn EXCEPT ![c] = OnMessage(conn[c], message, now, cross)]
            /\ Clock(AskedDays(message), cross)
    /\ UNCHANGED <<call, log, main>>

\* a fetch of the request of connection c completes
ConnFetchDone(c) ==
    /\ LoopRunning
    /\ conn[c].pc = "fetching"
    /\ \E i \in Pending(conn[c].req), net \in NetOutcomes :
         conn' = [conn EXCEPT ![c] =
                      AfterService([conn[c] EXCEPT !.req = FetchStep(conn[c].req, i, net)])]
    /\ UNCHANGED <<now, ticks, call, log, main>>

\* async with aiofile.AIOFile(...): the handler opens the log file of its
\* own and goes on to the write
OpenLog(c) ==
    /\ LoopRunning
    /\ conn[c].pc = "logging"
    /\ conn' = [conn EXCEPT ![c].pc = "writing"]
    /\ UNCHANGED <<now, ticks, call, log, main>>

\* await afp.write(...): the audit line is in the file, the file is closed
\* and the handler waits for the next message
WriteLog(c) ==
    /\ LoopRunning
    /\ conn[c].pc = "writing"
    /\ log' = Append(log, AuditLine(now, conn[c].days))
    /\ conn' = [conn EXCEPT ![c].pc = IF conn[c].open THEN "awaiting" ELSE "done",
                            ![c].lines = @ + 1]
    /\ UNCHANGED <<now, ticks, call, main>>

\* the peer closes the connection; a handler waiting for a message returns
Close(c) ==
    /\ LoopRunning
    /\ conn[c].open
    /\ conn[c].pc \in {"awaiting", "fetching", "logging", "writing"}
    /\ conn' = [conn EXCEPT ![c].open = FALSE,
                            ![c].pc = IF conn[c].pc = "awaiting" THEN "done" ELSE @]
    /\ UNCHANGED <<now, ticks, call, log, main>>

\* main() is over: run_until_complete returns and the process ends with
\* the server task neither stopped nor awaited
MainExit ==
    /\ main.pc = "start"
    /\ main' = [main EXCEPT !.pc = "exited"]
    /\ UNCHANGED <<now, ticks, call, conn, log>>

NextServer ==
    \/ \E c \in Conns :
          Receive(c) \/ ConnFetchDone(c) \/ OpenLog(c) \/ WriteLog(c) \/ Close(c)
    \/ MainExit

SpecServer == Init /\ [][NextServer]_vars

\* ------------------------------------------------------ parse_args, main

\* parser.parse_args() with type=int on a token that is no integer: argparse
\* prints its usage message and exits with status 2
UsageErrorText == "usage: error: argument days: invalid int value"

ArgsErrorText == "Error: Please provide a valid number of days (1-10)"

ErrorOccurredText == "An error occurred: "

\* the day-count tokens of the command line
DaysArgs ==
    { <<"x">>, <<"-", "1">>, <<"0">>, <<"1", "1">> }
        \cup { <<DigitChars[n + 1]>> : n \in 1..MaxCliWindow }

\* the -c values of the command line, a comma being an element of its own;
\* the first is the default "EUR,USD"
CurrencyArgs == { <<"EUR", ",", "USD">>, <<"GBP">>, <<>>, <<"USD", ",">> }

\* str.split(","): the pieces between the commas, empty pieces included
RECURSIVE SplitCommaFrom(_, _, _)
SplitCommaFrom(text, piece, pieces) ==
    IF text = <<>> THEN Append(pieces, piece)
    ELSE IF Head(text) = ","
    THEN SplitCommaFrom(Tail(text), "", Append(pieces, piece))
    ELSE SplitCommaFrom(Tail(text), Head(text), pieces)

SplitComma(text) == SplitCommaFrom(text, "", <<>>)

\* a check of the day count that lets every count through
ArgsDaysInvalidNever(days) == FALSE

\* args.days < 1 or args.days > 10
ArgsDaysInvalid(days) == days < 1 \/ days > 10

\* the process ends with a message on the terminal and an exit status
Exit(m, printed, status) ==
    [m EXCEPT !.pc = "exited", !.printed = printed, !.status = status]

\* main() up to its await: parse_args ends the process on a bad day count,
\* otherwise get_rates_for_days is called with the parsed arguments
MainStart ==
    /\ main.pc = "start"
    /\ call.pc = "idle"
    /\ \E daysArg \in DaysArgs, currencyArg \in CurrencyArgs :
         LET m    == [main EXCEPT !.argv = [days |-> daysArg, currencies |-> currencyArg]]
             days == PyInt(daysArg)
         IN  IF days.exc # NoExc
             THEN /\ main' = Exit(m, TextReply(UsageErrorText), 2)
                  /\ UNCHANGED <<now, ticks, call>>
             ELSE IF ArgsDaysInvalid(days.val)
             THEN /\ main' = Exit(m, TextReply(ArgsErrorText), 1)
                  /\ UNCHANGED <<now, ticks, call>>
             ELSE \E cross \in Crossings(days.val) :
                    /\ main' = [m EXCEPT !.pc = "awaiting"]
                    /\ call' = GetRatesForDays(days.val, SplitComma(currencyArg), now, cross)
                    /\ Clock(days.val, cross)
    /\ UNCHANGED <<conn, log>>

\* one of the fetches of main() completes while the loop is running
MainFetchDone ==
    /\ main.pc = "awaiting"
    /\ call.pc \in {"gather", "raised"}
    /\ \E i \in Pending(call), net \in NetOutcomes :
         call' = FetchStep(call, i, net)
    /\ UNCHANGED <<now, ticks, conn, log, main>>

\* main() resumes: the report is printed, or the except clause prints the
\* exception; either way main() returns and the process ends with status 0
MainResume ==
    /\ main.pc = "awaiting"
    /\ call.pc \in {"returned", "raised"}
    /\ main' = IF call.pc = "returned"
               THEN Exit(main, JsonReply(call.out.val), 0)
               ELSE Exit(main, TextReply(ErrorOccurredText), 0)
    /\ UNCHANGED <<now, ticks, call, conn, log>>

NextCli == MainStart \/ MainFetchDone \/ MainResume

SpecCli == Init /\ [][NextCli]_vars

\* ------------------------------------------------------------- properties

DigitVal(c) == CHOOSE n \in 0..9 : DigitChars[n + 1] = c

OrdinalFromCivil(d, m, y) ==
    LET yy  == IF m <= 2 THEN y - 1 ELSE y
        era == yy \div 400
        yoe == yy - era * 400
        doy == ((153 * (IF m > 2 THEN m - 3 ELSE m + 9) + 2) \div 5) + d - 1
        doe == yoe * 365 + (yoe \div 4) - (yoe \div 100) + doy
    IN  era * 146097 + doe - 305

\* the ordinal of the day a DateKey "dd.mm.yyyy" names
ParseDateKey(key) ==
    OrdinalFromCivil(DigitVal(key[1]) * 10 + DigitVal(key[2]),
                     DigitVal(key[4]) * 10 + DigitVal(key[5]),
                     DigitVal(key[7]) * 1000 + DigitVal(key[8]) * 100
                         + DigitVal(key[9]) * 10 + DigitVal(key[10]))

IsDateKey(key) ==
    /\ Len(key) = 10
    /\ key[3] = "." /\ key[6] = "."
    /\ \A j \in {1, 2, 4, 5, 7, 8, 9, 10} : \E n \in 1..10 : DigitChars[n] = key[j]

\* the report a call returned, and the day of its entry p
Report == call.out.val

ReportDay(p) == ParseDateKey(Report[p][1].k)

\* the day on which the call began
Today == now - ticks

Requested == {call.currencies[j] : j \in 1..Len(call.currencies)}

\* the p-th smallest element of a set of window indices
NthOf(M, p) == CHOOSE i \in M : Cardinality({j \in M : j < i}) = p - 1

\* C1: a fetch never ends with an exception: whatever the request met, the
\* result handed to the caller is a value.
C1_FetchNeverRaises == \A i \in Done(call) : call.res[i].exc = NoExc

\* C2: the caller of get_rates_for_days gets control back (a return or a
\* raise) only when none of the launched fetches is still pending.
C2_HardJoin == call.pc \in {"returned", "raised"} => Pending(call) = {}

\* C3: the entries of a returned report stand in window order: they are the
\* non-empty fetch results taken by increasing date index, whatever the order
\* in which the fetches finished.
C3_ReportInWindowOrder ==
    call.pc = "returned" =>
        \E f \in [1..Len(Report) -> 1..call.days] :
            /\ \A p, q \in 1..Len(Report) : p < q => f[p] < f[q]
            /\ \A p \in 1..Len(Report) : Report[p] = call.res[f[p]].val
            /\ \A i \in 1..call.days :
                 (\A p \in 1..Len(Report) : f[p] # i) => call.res[i].val = <<>>

C3_Witness ==
    /\ call.pc = "returned"
    /\ call.order = <<3, 1, 2>>
    /\ Len(Report) = 3

\* C4: a call ends with the validation error exactly when days < 1 or
\* days > 10; 0 and 11 are rejected, 1 and 10 pass, and the currency list
\* never causes it.
C4_ValidationIffOutOfRange ==
    call.pc # "idle" =>
        /\ (call.pc = "raised" /\ call.out.exc = "ValueError")
               <=> (call.days < 1 \/ call.days > 10)
        /\ call.days \in {0, 11} => call.out.exc = "ValueError"
        /\ call.days \in {1, 10} => call.out.exc # "ValueError"

C4_Witness ==
    /\ call.pc = "returned"
    /\ call.days = 10
    /\ Len(Report) = 10

C6_NoEmptyMapping ==
    /\ \A i \in Done(call) :
         call.res[i].val # <<>> =>
             /\ Len(call.res[i].val) = 1
             /\ call.res[i].val[1].v # <<>>
             /\ DictKeys(call.res[i].val[1].v) \subseteq Requested
    /\ call.pc = "returned" =>
         /\ \A p \in 1..Len(Report) :
              /\ Len(Report[p]) = 1
              /\ Report[p][1].v # <<>>
              /\ DictKeys(Report[p][1].v) \subseteq Requested
         /\ Len(Report) = Cardinality({i \in 1..call.days : call.res[i].val # <<>>})
         /\ call.currencies = <<>> => Report = <<>>

C6_Witness ==
    /\ call.pc = "returned"
    /\ Len(Report) = 1
    /\ \E i \in 1..call.days :
         call.met[i] = "ok" /\ call.res[i] = Returned(<<>>)

\* C7: a fetch that met a transport error gives the empty result; when no
\* other fetch raised, the call returns, and its report holds exactly the
\* dates whose fetch matched a currency, by increasing window index (most
\* recent first when the window was built within one day).
C7_PartialFailure ==
    LET F == {i \in Done(call) : call.met[i] = "transport"}
        M == {i \in Done(call) : call.res[i].val # <<>>}
    IN  /\ \A i \in F : call.res[i] = Returned(<<>>)
        /\ (/\ call.pc # "idle"
            /\ call.days \in 1..10
            /\ Pending(call) = {}
            /\ \A i \in Done(call) : call.res[i].exc = NoExc) =>
               /\ call.pc = "returned"
               /\ M \cap F = {}
               /\ Len(Report) = Cardinality(M)
               /\ \A p \in 1..Len(Report) :
                    /\ Report[p][1].k = call.dates[NthOf(M, p)]
                    /\ Report[p] = call.res[NthOf(M, p)].val
               /\ ticks = 0 =>
                    \A p, q \in 1..Len(Report) : p < q => ReportDay(p) > ReportDay(q)

C7_Witness ==
    /\ call.pc = "returned"
    /\ call.days = 3
    /\ call.met[2] = "transport"
    /\ Len(Report) = 2

\* C8: every message gets exactly one reply and the handler then waits for
\* the next one: a resting handler has sent as many replies as it received
\* messages, no handler ends with an exception, and no handler ends while
\* its peer is still connected.
C8_OneReplyPerMessage ==
    \A c \in Conns :
        /\ conn[c].pc \in {"awaiting", "logging", "writing"} => conn[c].sent = conn[c].rcvd
        /\ conn[c].pc = "fetching" => conn[c].sent = conn[c].rcvd - 1
        /\ conn[c].pc # "crashed"
        /\ conn[c].open => conn[c].pc # "done"

\* C9: in the step that delivers a message whose first token is not
\* 'exchange', that is 'exchange' alone, 'exchange X' with X no integer, or
\* 'exchange N' with N outside 1..10, the reply is the text of the
\* transition table, the handler waits for the next message, and the
\* service is not invoked.
C9_ErrorReplies ==
    [][\A c \in Conns :
         conn'[c].rcvd = conn[c].rcvd + 1 =>
             LET tokens == Split(Strip(conn'[c].msg))
                 expect ==
                     IF tokens = <<>> THEN ""
                     ELSE IF tokens[1] # Exchange THEN InvalidCommandText
                     ELSE IF Len(tokens) = 1 THEN HelpText
                     ELSE IF Len(tokens) > 2 THEN ""
                     ELSE IF PyInt(tokens[2]).exc # NoExc THEN FormatErrorText
                     ELSE IF PyInt(tokens[2]).val < 1 \/ PyInt(tokens[2]).val > 10
                     THEN RangeErrorText
                     ELSE ""
             IN  expect # "" =>
                     /\ conn'[c].last = TextReply(expect)
                     /\ conn'[c].sent = conn[c].sent + 1
                     /\ conn'[c].pc = "awaiting"
                     /\ conn'[c].req = IdleCall
                     /\ conn'[c].reports = conn[c].reports
                     /\ log' = log]_vars

C9_Witness ==
    /\ conn["a"].msg = Exchange \o <<" ", "1", "1">>
    /\ conn["a"].last = TextReply(RangeErrorText)
    /\ conn["b"].msg = Exchange \o <<" ", "1", ".", "5">>
    /\ conn["b"].last = TextReply(FormatErrorText)

RECURSIVE SumReports(_)
SumReports(cs) ==
    IF cs = {} THEN 0
    ELSE LET c == CHOOSE x \in cs : TRUE IN conn[c].reports + SumReports(cs \ {c})

\* C10: the audit log holds one line for every 'exchange N' command whose
\* report was sent, less the commands whose line is still to be written;
\* every line names a day count of 1..10; the other replies add no line.
C10_OneLinePerProcessedCommand ==
    /\ Len(log) + Cardinality({c \in Conns : conn[c].pc \in {"logging", "writing"}})
           = SumReports(Conns)
    /\ \A j \in 1..Len(log) : log[j].days \in 1..10

C10_Witness ==
    /\ Len(log) = 2
    /\ conn["a"].reports = 1
    /\ conn["b"].reports = 1
    /\ conn["b"].rcvd = 2
    /\ conn["b"].last = TextReply(InvalidCommandText)
    /\ \A c \in Conns : conn[c].pc = "awaiting"

\* C11: appends to the audit log are serialized: no two connections are
\* writing the log file at the same time.
C11_WritersSerialized ==
    Cardinality({c \in Conns : conn[c].pc = "writing"}) <= 1

\* the day count of the command line, where the token is an integer
ArgsDays == PyInt(main.argv.days).val

ArgsDaysGiven == main.pc # "start" /\ PyInt(main.argv.days).exc = NoExc

\* C12: on the one-shot path a day count below 1 or above 10 ends the
\* process with the error message and a non-zero status, and no fetch is
\* launched: get_rates_for_days is never entered for it.
C12_InvalidDaysExitNonZero ==
    (ArgsDaysGiven /\ (ArgsDays < 1 \/ ArgsDays > 10)) =>
        /\ main.pc = "exited"
        /\ main.status # 0
        /\ main.printed = TextReply(ArgsErrorText)
        /\ call = IdleCall

C12_Witness ==
    /\ main.pc = "exited"
    /\ main.argv.days = <<"1", "1">>
    /\ main.status = 1
    /\ main.printed = TextReply(ArgsErrorText)

\* the tokens of the last message a connection delivered
Tokens(c) == Split(Strip(conn[c].msg))

\* C13: a message of 'exchange' and two or more further tokens is answered
\* with the format error and the handler waits for the next message.
C13_ExtraTokensFormatError ==
    \A c \in Conns :
        (Len(Tokens(c)) >= 3 /\ Tokens(c)[1] = Exchange) =>
            /\ conn[c].last = TextReply(FormatErrorText)
            /\ conn[c].sent = conn[c].rcvd
            /\ conn[c].pc \in {"awaiting", "done"}

\* the states of a handler between a valid command and its audit line
Processing == {"fetching", "logging", "writing"}

\* C14: connections are independent. While one connection is processing a
\* command, every other open connection that waits for a message can take
\* one; a step of one connection leaves every other connection as it was;
\* and a JSON reply is the report of the connection's own request, built
\* from its own pending fetch and the results it already holds.
C14_ConnectionsIndependent ==
    /\ [](\A c \in Conns : \A d \in Conns \ {c} :
            (/\ conn[c].pc \in Processing
             /\ conn[d].pc = "awaiting" /\ conn[d].open
             /\ LoopRunning /\ Delivered < MaxMsgs) => ENABLED Receive(d))
    /\ [][\A c \in Conns :
            conn'[c] # conn[c] =>
                /\ \A d \in Conns \ {c} : conn'[d] = conn[d]
                /\ conn'[c].reports # conn[c].reports =>
                       \E i \in Pending(conn[c].req), net \in NetOutcomes :
                           conn'[c].last =
                               JsonReply(FetchStep(conn[c].req, i, net).out.val)]_vars

C14_Witness ==
    /\ conn["a"].pc = "writing"
    /\ conn["a"].reports = 1
    /\ conn["b"].pc = "fetching"
    /\ conn["b"].rcvd = 1

\* C15: a call with a day count N of 1..10 launches exactly N fetches, the
\* i-th for the date today-(i-1) with the caller's currencies; no date is
\* fetched twice and no fetch completes twice.
C15_OneFetchPerWindowDate ==
    (call.pc # "idle" /\ ~DaysInvalid(call.days)) =>
        /\ Len(call.dates) = call.days
        /\ \A i \in 1..Len(call.dates) : call.dates[i] = Strftime(Today - (i - 1))
        /\ \A i \in 1..Len(call.dates) : \A j \in 1..Len(call.dates) :
               i # j => call.dates[i] # call.dates[j]
        /\ Len(call.order) <= call.days
        /\ \A i \in 1..Len(call.order) : \A j \in 1..Len(call.order) :
               i # j => call.order[i] # call.order[j]

\* C16: a valid 'exchange N' on a connection that stays open ends with the
\* JSON report sent and the audit line written: once all its fetches have
\* completed and the handler waits again, the last reply is the report and
\* every report has its line; the handler never ends on the way.
C16_ValidCommandEndsWithReport ==
    \A c \in Conns :
        (AskedDays(conn[c].msg) >= 1 /\ conn[c].open) =>
            /\ conn[c].pc # "crashed"
            /\ conn[c].pc = "awaiting" =>
                   /\ conn[c].last.kind = "json"
                   /\ conn[c].lines = conn[c].reports

\* C17: the server is neither stopped nor awaited when main() is over, and
\* from then on nothing drives it: no connection takes a message, gets a
\* reply or moves on, and the audit log gets no further line.
C17_NoServerStepAfterMain ==
    [][main.pc = "exited" => (conn' = conn /\ log' = log)]_vars

C17_Witness ==
    /\ main.pc = "exited"
    /\ conn["a"].pc = "fetching" /\ conn["a"].open
    /\ conn["b"].pc = "awaiting" /\ conn["b"].open
    /\ Delivered < MaxMsgs

\* C18: the format error is sent only in answer to 'exchange <token>' whose
\* token is no integer; a valid command never gets it, whatever happens to
\* its request.
C18_FormatErrorOnlyForBadToken ==
    [][\A c \in Conns :
          (conn'[c].sent = conn[c].sent + 1
              /\ conn'[c].last = TextReply(FormatErrorText)) =>
                LET command == Split(Strip(conn'[c].msg))
                IN  /\ Len(command) = 2
                    /\ command[1] = Exchange
                    /\ PyInt(command[2]).exc # NoExc]_vars

\* C19: the audit line of a command is written only after its JSON reply
\* was sent: a connection never has more lines than reports sent, a report
\* without its line is the one whose line is being written, and a command
\* whose report could not be sent on a closed connection gets no line.
C19_LineOnlyAfterReport ==
    \A c \in Conns :
        /\ conn[c].lines <= conn[c].reports
        /\ conn[c].reports =
               conn[c].lines + (IF conn[c].pc \in {"logging", "writing"} THEN 1 ELSE 0)
        /\ conn[c].lost = "json" =>
               /\ conn[c].pc = "done"
               /\ conn[c].lines = conn[c].reports
               /\ conn[c].sent < conn[c].rcvd

C19_Witness ==
    /\ conn["a"].lost = "json"
    /\ conn["a"].rcvd = 1
    /\ conn["a"].lines = 0
    /\ conn["b"].lines = 1
    /\ conn["b"].reports = 1
    /\ Len(log) = 1

\* C20: a call of get_rates_for_days with a day count below 1 or above 10
\* raises ValueError before anything else happens: no date is computed, no
\* fetch is launched and none ever completes for that call.
C20_RejectedBeforeAnyFetch ==
    (call.pc # "idle" /\ (call.days < 1 \/ call.days > 10)) =>
        /\ call.pc = "raised"
        /\ call.out = Raised("ValueError")
        /\ call.dates = <<>>
        /\ call.res = <<>>
        /\ call.met = <<>>
        /\ call.order = <<>>

C20_Witness ==
    /\ call.pc = "raised"
    /\ call.days = MaxDays + 1
    /\ call.dates = <<>>

====
